---- MODULE Spec2Model ----
(***************************************************************************)
(* A model of lsst.sims.GalSimInterface.wcsUtils (WcsUtils.py): the        *)
(* rotation between (RA, Dec) and native longitude/latitude, and the       *)
(* fit of a TAN WCS to a detector.                                         *)
(*                                                                         *)
(* Numbers.  The code computes in IEEE doubles; the model computes in      *)
(* exact arithmetic on the angles whose sines and cosines are integers.    *)
(* An angle is an integer number of quarter turns (1 = pi/2 rad = 90       *)
(* degrees), so Pi = 2 and every unit vector met is a signed basis vector. *)
(* A value that can be an IEEE special value (the quotient of line 72, the *)
(* arccos of line 73 and what is computed from them) is a record           *)
(* [k |-> "num" | "nan" | "inf", v |-> Int], with numpy's rules for        *)
(* comparing and combining a nan.  Rounding is modelled where it decides   *)
(* the result: at a pole of the rotated frame, where the exact quotient of *)
(* line 72 is 0/0 and the floats' quotient is one of rounding residues.    *)
(* On these angles the doubles agree with the exact values everywhere else.*)
(*                                                                         *)
(* Indices.  Python's v2[0], v2[1], v2[2] are v2[1], v2[2], v2[3] here.    *)
(***************************************************************************)
EXTENDS Integers, Sequences, FiniteSets, TLC

VARIABLES
    mode,      \* "transform": one call of a transform; "fit": one call of tanWcsFromDetector
    args,      \* the arguments of the transform call
    rounding,  \* the residue rounding leaves in each element of the call that is at a pole
    ret,       \* what the transform call gave: a returned pair or a raised error
    back,      \* what _raDecFromNativeLonLat gave when applied to ret (the round trip)
    env,       \* the fit's arguments and what its collaborators answer (fixed for a call)
    pc,        \* where tanWcsFromDetector is: the step to run next, "done" or "raised"
    bounds,    \* xTanPixMin, xTanPixMax, yTanPixMin, yTanPixMax (line 290)
    xPixList,  \* the sample pixels (lines 294-308)
    yPixList,
    raDecList, \* raList, decList: the sky position of each sample (line 311)
    pointing,  \* raPointing[0], decPointing[0] (line 317)
    crPix,     \* crPix1[0], crPix2[0] (line 321)
    nativeOrigin, \* the pointing passed to _nativeLonLatFromRaDec (line 326)
    uList,     \* the intermediate world coordinates of the samples (lines 333-335)
    vList,
    coeffs,    \* what numpy.linalg.solve returned (line 358)
    tanWcs,    \* the FITS header of the returned WCS (lines 363-378)
    err,       \* the exception that left tanWcsFromDetector, "" when none
    log        \* the collaborator calls made so far, in order

tvars == <<args, rounding, ret, back>>
fvars == <<env, pc, bounds, xPixList, yPixList, raDecList, pointing, crPix,
           nativeOrigin, uList, vList, coeffs, tanWcs, err, log>>
vars == <<mode, args, rounding, ret, back, env, pc, bounds, xPixList, yPixList, raDecList,
          pointing, crPix, nativeOrigin, uList, vList, coeffs, tanWcs, err, log>>

(***************************************************************************)
(* Bounds of the model.                                                    *)
(***************************************************************************)
MaxBatch == 2      \* longest batch of coordinates passed as a numpy array

(***************************************************************************)
(* numpy scalars                                                           *)
(***************************************************************************)
Pi == 2                      \* numpy.pi, in quarter turns
TolInv == 1000000000         \* the tolerance 1.0e-9 of lines 79-80 is 1/TolInv

Num(n) == [k |-> "num", v |-> n]
NaN == [k |-> "nan", v |-> 0]
Inf(s) == [k |-> "inf", v |-> s]

Abs(n) == IF n < 0 THEN -n ELSE n
Sign(n) == IF n > 0 THEN 1 ELSE IF n < 0 THEN -1 ELSE 0

\* numpy.cos and numpy.sin of a whole number of quarter turns
Cos(a) == CASE a % 4 = 0 -> 1 [] a % 4 = 1 -> 0 [] a % 4 = 2 -> -1 [] a % 4 = 3 -> 0
Sin(a) == CASE a % 4 = 0 -> 0 [] a % 4 = 1 -> 1 [] a % 4 = 2 -> 0 [] a % 4 = 3 -> -1

\* numpy.sqrt of a perfect square
Sqrt(n) == CHOOSE r \in 0..n : r * r = n

\* numpy.arctan2(y, x) where the direction (x, y) lies on an axis
ArcTan2(y, x) ==
    CASE y = 0 /\ x >= 0 -> 0
      [] y > 0 /\ x = 0 -> 1
      [] y = 0 /\ x < 0 -> 2
      [] y < 0 /\ x = 0 -> -1

\* a / b for numpy.float64: 0/0 is nan, a/0 is a signed infinity, neither raises
TrueDivide(a, b) ==
    IF b = 0 THEN (IF a = 0 THEN NaN ELSE Inf(Sign(a)))
    ELSE Num((a * Sign(b)) \div Abs(b))

\* numpy.arccos: nan outside [-1, 1] and for a nan
ArcCos(f) ==
    IF f.k # "num" THEN NaN
    ELSE CASE f.v = 1 -> Num(0)
           [] f.v = 0 -> Num(1)
           [] f.v = -1 -> Num(Pi)
           [] OTHER -> NaN

\* -numpy.sin(f)
NegSin(f) == IF f.k # "num" THEN NaN ELSE Num(-Sin(f.v))

\* numpy.abs(f) > 1.0e-9: False for a nan
AbsGtTol(f) ==
    CASE f.k = "nan" -> FALSE
      [] f.k = "inf" -> TRUE
      [] f.k = "num" -> Abs(f.v) * TolInv > 1

\* numpy.sign(f) != numpy.sign(n): True when f is a nan
SignDiffers(f, n) ==
    CASE f.k = "nan" -> TRUE
      [] f.k = "inf" -> f.v # Sign(n)
      [] f.k = "num" -> Sign(f.v) # Sign(n)

\* 2.0*numpy.pi - f
TwoPiMinus(f) == IF f.k = "num" THEN Num(2 * Pi - f.v) ELSE NaN

\* numpy.radians and numpy.degrees between degrees and quarter turns
Radians(d) == d \div 90
Degrees(a) == a * 90
DegreesF(f) == IF f.k = "num" THEN Num(Degrees(f.v)) ELSE f

\* numpy.dot of a 3x3 matrix and a 3-vector
Dot(m, v) == [i \in 1..3 |-> m[i][1] * v[1] + m[i][2] * v[2] + m[i][3] * v[3]]

(***************************************************************************)
(* _nativeLonLatFromRaDec, one element                                     *)
(***************************************************************************)
\* the rotation of lines 47-67 with beta = raPointing, the sign of the inverse transform
ForwardRotate_BetaOfInverse(ra, dec, raPointing, decPointing) ==
    LET x == -1 * Cos(dec) * Sin(ra)
        y == Cos(dec) * Cos(ra)
        z == Sin(dec)
        alpha == decPointing - 1
        beta == raPointing
        ca == Cos(alpha)
        sa == Sin(alpha)
        cb == Cos(beta)
        sb == Sin(beta)
    IN  Dot(<< <<1, 0, 0>>, <<0, ca, sa>>, <<0, -1 * sa, ca>> >>,
            Dot(<< <<cb, -1 * sb, 0>>, <<sb, cb, 0>>, <<0, 0, 1>> >>, <<x, y, z>>))

\* lines 47-67: the vector of (ra, dec), rotated about z by beta and then about x by alpha
ForwardRotate(ra, dec, raPointing, decPointing) ==
    LET x == -1 * Cos(dec) * Sin(ra)
        y == Cos(dec) * Cos(ra)
        z == Sin(dec)
        alpha == decPointing - 1      \* decPointing - 0.5*numpy.pi
        beta == -1 * raPointing
        ca == Cos(alpha)
        sa == Sin(alpha)
        cb == Cos(beta)
        sb == Sin(beta)
    IN  Dot(<< <<1, 0, 0>>, <<0, ca, sa>>, <<0, -1 * sa, ca>> >>,
            Dot(<< <<cb, -1 * sb, 0>>, <<sb, cb, 0>>, <<0, 0, 1>> >>, <<x, y, z>>))

\* lines 158-178: the vector of (lon, lat), rotated about x by alpha and then about z by beta
InverseRotate(lon, lat, raPointing, decPointing) ==
    LET x == -1 * Cos(lat) * Sin(lon)
        y == Cos(lat) * Cos(lon)
        z == Sin(lat)
        alpha == 1 - decPointing      \* 0.5*numpy.pi - decPointing
        beta == raPointing
        ca == Cos(alpha)
        sa == Sin(alpha)
        cb == Cos(beta)
        sb == Sin(beta)
    IN  Dot(<< <<cb, -1 * sb, 0>>, <<sb, cb, 0>>, <<0, 0, 1>> >>,
            Dot(<< <<1, 0, 0>>, <<0, ca, sa>>, <<0, -1 * sa, ca>> >>, <<x, y, z>>))

\* lines 69-70 and 181-182
LatOf(v2) == ArcTan2(v2[3], Sqrt(v2[1] * v2[1] + v2[2] * v2[2]))

\* The rotated vector is at a pole when its first two components are 0.  The
\* floats are not: numpy.cos(0.5*numpy.pi) is 6.1e-17, the two components are
\* what rounding has left of them, and numpy.cos(latOut) is above 0.  A
\* residue r holds what rounding leaves at a pole: r.x, the sign of v2[0], and
\* r.y, the quotient v2[1]/numpy.cos(latOut), which is 0, 1 or -1, or 2 for a
\* quotient beyond 1.
AtPole(v2) == v2[1] = 0 /\ v2[2] = 0
NoResidue == [x |-> 0, y |-> 0]
\* one residue for each way the code goes: a quotient beyond 1 (the candidate is
\* a nan), a quotient of -1 (pi, kept), a quotient of 0 (pi/2, changed to 2pi - pi/2)
Residues == {[x |-> 0, y |-> 2], [x |-> 0, y |-> -1], [x |-> 1, y |-> 0]}

\* v2 as the tests of lines 79-80 see it: at a pole, the signs rounding has left
AsComputed(v2, r) == IF AtPole(v2) THEN <<r.x, Sign(r.y), v2[3]>> ELSE v2

\* lines 72-74 and 184-186: _y, the longitude candidate _ra, and _x
Candidate(v2, r) ==
    LET _y == IF AtPole(v2) THEN Num(r.y) ELSE TrueDivide(v2[2], Cos(LatOf(v2)))
        _ra == ArcCos(_y)
        _x == NegSin(_ra)
    IN  [y |-> _y, ra |-> _ra, x |-> _x]

\* the condition with numpy.sin(_ra) where the code has _x = -numpy.sin(_ra)
Flip_PlusSin(c, v2) ==
    \/ AbsGtTol(c.x) /\ SignDiffers([c.x EXCEPT !.v = -1 * c.x.v], v2[1])
    \/ AbsGtTol(c.y) /\ SignDiffers(c.y, v2[2])

\* the condition with == for != in its second test
Flip_EqualSigns(c, v2) ==
    \/ AbsGtTol(c.x) /\ SignDiffers(c.x, v2[1])
    \/ AbsGtTol(c.y) /\ ~SignDiffers(c.y, v2[2])

\* the condition of lines 79-80, 85-86, 191-192 and 197-198
Flip(c, v2) ==
    \/ AbsGtTol(c.x) /\ SignDiffers(c.x, v2[1])
    \/ AbsGtTol(c.y) /\ SignDiffers(c.y, v2[2])

\* the list comprehension without the pass that replaces a nan by 0.0
ArrayLon_KeepsNan(v2, r) ==
    LET c == Candidate(v2, r)
    IN  IF Flip(c, AsComputed(v2, r)) THEN TwoPiMinus(c.ra) ELSE c.ra

\* lines 76-83 and 188-195: the branch taken when _ra is a numpy.float64
ScalarLon(v2, r) ==
    LET c == Candidate(v2, r)
    IN  IF c.ra.k = "nan" THEN Num(0)
        ELSE IF Flip(c, AsComputed(v2, r)) THEN TwoPiMinus(c.ra)
        ELSE c.ra

\* lines 85-90 and 197-202, one element of the list comprehensions: the
\* quadrant is chosen first, a nan is replaced by 0.0 afterwards
ArrayLon(v2, r) ==
    LET c == Candidate(v2, r)
        ll == IF Flip(c, AsComputed(v2, r)) THEN TwoPiMinus(c.ra) ELSE c.ra
    IN  IF ll.k = "nan" THEN Num(0) ELSE ll

(***************************************************************************)
(* The transforms as called: numpy's shapes                                *)
(*                                                                         *)
(* A result holds the latitudes as angles and the longitudes as the        *)
(* records of a value that could be a nan.                                 *)
(*                                                                         *)
(* A call's coordinates are both Python floats (shape "scalar", held here  *)
(* as sequences of length 1) or both 1-d numpy arrays (shape "array"); its *)
(* pointing is a pair of floats (pshape "scalar") or a pair of arrays of   *)
(* one length (pshape "array").  Neither function checks its arguments.    *)
(* What numpy does with them:                                              *)
(*   - two arrays of unequal lengths, both above 1: cos(dec)*sin(ra)       *)
(*     raises ValueError (the operands cannot be broadcast);               *)
(*   - an array of length 1 against a longer one: it is broadcast; when    *)
(*     the shorter one is dec (lat), numpy.array([x,y,z]) is ragged, which *)
(*     a numpy that refuses ragged arrays raises on and an older numpy     *)
(*     computes with, so both outcomes are kept;                           *)
(*   - a pointing array of length 2 or more: numpy.array of the rotation   *)
(*     matrix raises ValueError (an element set with a sequence);          *)
(*   - a pointing array of length 1: the same numpy.array raises or takes  *)
(*     the element as a scalar, depending on the numpy, so both are kept.  *)
(***************************************************************************)
Pending == [st |-> "pending", shape |-> "", lon |-> <<>>, lat |-> <<>>, err |-> "", line |-> 0]
Returned(shape, lon, lat) ==
    [st |-> "returned", shape |-> shape, lon |-> lon, lat |-> lat, err |-> "", line |-> 0]
Raised(e, line) ==
    [st |-> "raised", shape |-> "", lon |-> <<>>, lat |-> <<>>, err |-> e, line |-> line]

Max(m, n) == IF m > n THEN m ELSE n

\* element i of an array broadcast to a longer length
Element(s, i) == IF Len(s) = 1 THEN s[1] ELSE s[i]

Unbroadcastable(a) ==
    a.shape = "array" /\ Len(a.a) # Len(a.b) /\ Len(a.a) > 1 /\ Len(a.b) > 1

Ragged(a) == a.shape = "array" /\ Len(a.a) > 1 /\ Len(a.b) = 1

\* lines 69-92: the scalar branch for floats, the list comprehensions for arrays
NativeResult(a, rnd) ==
    IF a.shape = "scalar"
    THEN LET v2 == ForwardRotate(a.a[1], a.b[1], a.rp[1], a.dp[1])
         IN  Returned("scalar", <<ScalarLon(v2, rnd[1])>>, <<LatOf(v2)>>)
    ELSE LET n == Max(Len(a.a), Len(a.b))
             v2(i) == ForwardRotate(Element(a.a, i), Element(a.b, i), a.rp[1], a.dp[1])
         IN  Returned("array", [i \in 1..n |-> ArrayLon(v2(i), rnd[i])],
                      [i \in 1..n |-> LatOf(v2(i))])

\* lines 181-205
RaDecResult(a, rnd) ==
    IF a.shape = "scalar"
    THEN LET v2 == InverseRotate(a.a[1], a.b[1], a.rp[1], a.dp[1])
         IN  Returned("scalar", <<ScalarLon(v2, rnd[1])>>, <<LatOf(v2)>>)
    ELSE LET n == Max(Len(a.a), Len(a.b))
             v2(i) == InverseRotate(Element(a.a, i), Element(a.b, i), a.rp[1], a.dp[1])
         IN  Returned("array", [i \in 1..n |-> ArrayLon(v2(i), rnd[i])],
                      [i \in 1..n |-> LatOf(v2(i))])

\* _nativeLonLatFromRaDec(ra, dec, raPointing, decPointing), lines 15-92:
\* the set of what the call can give, rnd the residues of its elements
_nativeLonLatFromRaDec(a, rnd) ==
    IF Unbroadcastable(a) THEN {Raised("ValueError", 47)}
    ELSE IF a.pshape = "array" /\ Len(a.rp) > 1 THEN {Raised("ValueError", 59)}
    ELSE (IF a.pshape = "array" THEN {Raised("ValueError", 59)} ELSE {})
         \cup (IF Ragged(a) THEN {Raised("ValueError", 67)} ELSE {})
         \cup {NativeResult(a, rnd)}

\* _raDecFromNativeLonLat(lon, lat, raPointing, decPointing), lines 134-205
_raDecFromNativeLonLat(a, rnd) ==
    IF Unbroadcastable(a) THEN {Raised("ValueError", 158)}
    ELSE IF a.pshape = "array" /\ Len(a.rp) > 1 THEN {Raised("ValueError", 170)}
    ELSE (IF a.pshape = "array" THEN {Raised("ValueError", 170)} ELSE {})
         \cup (IF Ragged(a) THEN {Raised("ValueError", 178)} ELSE {})
         \cup {RaDecResult(a, rnd)}

RadiansOf(s) == [i \in 1..Len(s) |-> Radians(s[i])]
DegreesOf(s) == [i \in 1..Len(s) |-> Degrees(s[i])]

InRadians(a) ==
    [a EXCEPT !.a = RadiansOf(a.a), !.b = RadiansOf(a.b),
              !.rp = RadiansOf(a.rp), !.dp = RadiansOf(a.dp)]

InDegrees(r) ==
    IF r.st = "returned"
    THEN [r EXCEPT !.lon = [i \in 1..Len(r.lon) |-> DegreesF(r.lon[i])], !.lat = DegreesOf(r.lat)]
    ELSE r

\* nativeLonLatFromRaDec, lines 95-131: degrees in, degrees out
nativeLonLatFromRaDec(a, rnd) ==
    {InDegrees(r) : r \in _nativeLonLatFromRaDec(InRadians(a), rnd)}

\* raDecFromNativeLonLat, lines 208-237
raDecFromNativeLonLat(a, rnd) ==
    {InDegrees(r) : r \in _raDecFromNativeLonLat(InRadians(a), rnd)}

\* the rotated vector of element i of a call in radians
RotatedElement(a, i) ==
    IF a.fn \in {"_nativeLonLatFromRaDec", "nativeLonLatFromRaDec"}
    THEN ForwardRotate(Element(a.a, i), Element(a.b, i), a.rp[1], a.dp[1])
    ELSE InverseRotate(Element(a.a, i), Element(a.b, i), a.rp[1], a.dp[1])

\* the residues the first n elements of a call can have: one of Residues for
\* an element at a pole, none for the others
RECURSIVE Roundings(_, _)
Roundings(a, n) ==
    IF n = 0 THEN {<<>>}
    ELSE {Append(s, r) : s \in Roundings(a, n - 1),
                         r \in IF AtPole(RotatedElement(a, n)) THEN Residues ELSE {NoResidue}}

RoundingsOf(a) ==
    LET n == Max(Len(a.a), Len(a.b))
    IN  IF Unbroadcastable(a) THEN {[i \in 1..n |-> NoResidue]} ELSE Roundings(a, n)

(***************************************************************************)
(* Exact fractions, for the linear solve                                   *)
(***************************************************************************)
RECURSIVE GCD(_, _)
GCD(a, b) == IF b = 0 THEN a ELSE GCD(b, a % b)

\* the fraction n/d in lowest terms with a positive denominator
Rat(n, d) ==
    LET g == GCD(Abs(n), Abs(d))
    IN  [n |-> (Sign(d) * n) \div g, d |-> Abs(d) \div g]
RInt(n) == [n |-> n, d |-> 1]
RAdd(p, q) == Rat(p.n * q.d + q.n * p.d, p.d * q.d)
RSub(p, q) == Rat(p.n * q.d - q.n * p.d, p.d * q.d)
RMul(p, q) == Rat(p.n * q.n, p.d * q.d)
RDiv(p, q) == Rat(p.n * q.d, p.d * q.n)

RECURSIVE SumProd(_, _, _)
\* (s*t).sum() over the first n elements of two lists
SumProd(s, t, n) == IF n = 0 THEN 0 ELSE SumProd(s, t, n - 1) + s[n] * t[n]

\* a row after the pivot row prow has cleared column k from it
ClearRow(row, prow, k, n) ==
    [j \in 1..(n + 1) |-> RSub(row[j], RMul(row[k], prow[j]))]

\* m with rows k and p exchanged, row k scaled to a unit pivot and column k cleared elsewhere
Pivot(m, k, p, n) ==
    LET prow == [j \in 1..(n + 1) |-> RDiv(m[p][j], m[p][k])]
    IN  [i \in 1..n |->
            IF i = k THEN prow
            ELSE ClearRow(IF i = p THEN m[k] ELSE m[i], prow, k, n)]

\* Gauss-Jordan elimination of the augmented matrix m from column k on: in exact
\* arithmetic any nonzero pivot gives the same solution, and none is left
\* exactly when the matrix is singular
RECURSIVE Eliminate(_, _, _)
Eliminate(m, k, n) ==
    IF k > n THEN [ok |-> TRUE, m |-> m]
    ELSE LET rows == {i \in k..n : m[i][k].n # 0}
         IN  IF rows = {} THEN [ok |-> FALSE, m |-> m]
             ELSE Eliminate(Pivot(m, k, CHOOSE i \in rows : \A j \in rows : i <= j, n), k + 1, n)

\* a solve that answers a singular system with zeros, as a least-squares solve would
LinalgSolve_NeverSingular(aMatrix, bVector) ==
    LET n == Len(bVector)
        aug == [i \in 1..n |-> [j \in 1..(n + 1) |->
                    IF j <= n THEN RInt(aMatrix[i][j]) ELSE RInt(bVector[i])]]
        e == Eliminate(aug, 1, n)
    IN  IF e.ok THEN [ok |-> TRUE, x |-> [i \in 1..n |-> e.m[i][n + 1]]]
        ELSE [ok |-> TRUE, x |-> [i \in 1..n |-> RInt(0)]]

\* numpy.linalg.solve(aMatrix, bVector): the solution of a nonsingular system,
\* LinAlgError("Singular matrix") for a singular one
LinalgSolve(aMatrix, bVector) ==
    LET n == Len(bVector)
        aug == [i \in 1..n |-> [j \in 1..(n + 1) |->
                    IF j <= n THEN RInt(aMatrix[i][j]) ELSE RInt(bVector[i])]]
        e == Eliminate(aug, 1, n)
    IN  IF e.ok THEN [ok |-> TRUE, x |-> [i \in 1..n |-> e.m[i][n + 1]]]
        ELSE [ok |-> FALSE, x |-> <<>>]

(***************************************************************************)
(* tanWcsFromDetector: its collaborators                                   *)
(*                                                                         *)
(* A pixel coordinate is an integer.  A pointing is a pair of angles in    *)
(* quarter turns.  The sky position of a sample is held as its gnomonic    *)
(* (TAN) coordinates about the corrected pointing, in a fixed unit of      *)
(* angle: these are the numbers lines 326-335 compute from it when the     *)
(* origin passed to _nativeLonLatFromRaDec is that pointing.               *)
(***************************************************************************)
NoWcs == [made |-> FALSE]
Collaborators == {"getCorners", "transform", "raDecFromPixelCoordinates",
                  "observedFromICRS", "calculatePixelCoordinates", "makeWcs"}

\* the detector's four corners in TAN_PIXELS, as afwCamera.transform gives them, from corner k on
Corners(w, h, k) ==
    LET c == << <<0, 0>>, <<w, 0>>, <<w, h>>, <<0, h>> >>
    IN  [i \in 1..4 |-> c[((i + k - 1) % 4) + 1]]

\* the pixel-to-sky maps of the camera: linear in the offset from the pixel of
\* the pointing, with a quadratic term when quad = 1
SkyMaps == { <<1, 0, 0, 1>>, <<0, -1, 1, 0>>, <<2, 1, 1, -1>> }

\* what a collaborator can do: answer every call, or raise at one call
Answers == {<<"none", "", 1>>}
Failures ==
    {<<c, e, 1>> : c \in Collaborators \ {"transform"}, e \in {"RuntimeError", "MemoryError"}}
    \cup {<<"transform", "RuntimeError", i>> : i \in 1..4}

FitEnv(w, h, k, ep, ob, xy, m, q, f) ==
    [corners |-> Corners(w, h, k), epoch |-> ep, unrefracted |-> <<1, 0>>, observed |-> ob,
     pixOfPointing |-> xy, cd |-> m, quad |-> q,
     failAt |-> f[1], failErr |-> f[2], failIdx |-> f[3]]

FitEnvs ==
    {FitEnv(w, h, k, eo[1], eo[2], xy, m, q, f) :
        w \in {2, 4}, h \in {1, 2, 4}, k \in {0, 2},
        eo \in {<<2000, <<1, 0>>>>, <<2015, <<1, -1>>>>},
        xy \in {0, 1, 2} \X {0, 1}, m \in SkyMaps, q \in {0, 1}, f \in Answers}
    \cup {FitEnv(w, h, 0, 2000, <<1, -1>>, <<1, 1>>, <<1, 0, 0, 1>>, 0, f) :
        w \in {2, 4}, h \in {1, 4}, f \in Failures}

\* raDecFromPixelCoordinates(xPixList, yPixList, ..., includeDistortion=False), one pixel
RaDecFromPixel(e, x, y) ==
    LET dx == x - e.pixOfPointing[1]
        dy == y - e.pixOfPointing[2]
    IN  [xi |-> e.cd[1] * dx + e.cd[2] * dy + e.quad * dx * dx,
         eta |-> e.cd[3] * dx + e.cd[4] * dy]

\* observedFromICRS of the unrefracted pointing
ObservedFromICRS(e, raDec) == IF raDec = e.unrefracted THEN e.observed ELSE raDec

\* calculatePixelCoordinates(ra, dec, ..., includeDistortion=False) of a pointing: the
\* pixel where the camera's pixel-to-sky map gives that pointing
CalculatePixelCoordinates(e, raDec) ==
    IF raDec = e.observed THEN e.pixOfPointing
    ELSE <<e.pixOfPointing[1] + 1, e.pixOfPointing[2] + 1>>

(***************************************************************************)
(* tanWcsFromDetector: its own computations                                *)
(***************************************************************************)
\* lines 242-263: the bounding box of the points, each bound None before the first point
RECURSIVE TrackBounds(_, _)
TrackBounds(points, n) ==
    IF n = 0 THEN [none |-> TRUE, xPixMin |-> 0, xPixMax |-> 0, yPixMin |-> 0, yPixMax |-> 0]
    ELSE LET b == TrackBounds(points, n - 1)
             xx == points[n][1]
             yy == points[n][2]
         IN  [none |-> FALSE,
              xPixMin |-> IF b.none \/ xx < b.xPixMin THEN xx ELSE b.xPixMin,
              xPixMax |-> IF b.none \/ xx > b.xPixMax THEN xx ELSE b.xPixMax,
              yPixMin |-> IF b.none \/ yy < b.yPixMin THEN yy ELSE b.yPixMin,
              yPixMax |-> IF b.none \/ yy > b.yPixMax THEN yy ELSE b.yPixMax]

\* _getTanPixelBounds, line 263
_getTanPixelBounds(corners) ==
    LET b == TrackBounds(corners, Len(corners))
    IN  <<b.xPixMin, b.xPixMax, b.yPixMin, b.yPixMax>>

CeilDiv(a, b) == (a + b - 1) \div b

\* numpy.arange(lo, hi + 0.5*step, step) for step > 0: lo, lo+step, ... below hi + step/2
Arange(lo, hi, step) ==
    LET n == Max(0, CeilDiv(2 * (hi - lo) + step, 2 * step))
    IN  [i \in 1..n |-> lo + (i - 1) * step]

\* lines 302-308: the samples, x outermost; the inner loop over y steps by dx too
SampleGrid(b) ==
    LET dx == (b[2] - b[1]) \div 2          \* 0.5*(xTanPixMax-xTanPixMin), the width is even
        xs == Arange(b[1], b[2], dx)
        ys == Arange(b[3], b[4], dx)
        n == Len(xs) * Len(ys)
    IN  [x |-> [i \in 1..n |-> xs[((i - 1) \div Len(ys)) + 1]],
         y |-> [i \in 1..n |-> ys[((i - 1) % Len(ys)) + 1]]]

\* lines 326-335: uList and vList of the samples for the origin passed
IntermediateWorld(sky, origin, e) ==
    CASE origin = e.observed -> [u |-> [i \in 1..Len(sky) |-> sky[i].xi],
                                 v |-> [i \in 1..Len(sky) |-> sky[i].eta]]

\* the normal equations with the second and third sums of bVector exchanged
NormalEquations_Interleaved(xs, ys, us, vs, cr) ==
    LET n == Len(xs)
        delta_xList == [i \in 1..n |-> xs[i] - cr[1]]
        delta_yList == [i \in 1..n |-> ys[i] - cr[2]]
        bVector == << SumProd(delta_xList, us, n), SumProd(delta_xList, vs, n),
                      SumProd(delta_yList, us, n), SumProd(delta_yList, vs, n) >>
        offDiag == SumProd(delta_yList, delta_xList, n)
        xsq == SumProd(delta_xList, delta_xList, n)
        ysq == SumProd(delta_yList, delta_yList, n)
        aMatrix == << <<xsq, offDiag, 0, 0>>,
                      <<offDiag, ysq, 0, 0>>,
                      <<0, 0, xsq, offDiag>>,
                      <<0, 0, offDiag, ysq>> >>
    IN  [a |-> aMatrix, b |-> bVector]

\* lines 337-358: the normal equations and their solution
NormalEquations(xs, ys, us, vs, cr) ==
    LET n == Len(xs)
        delta_xList == [i \in 1..n |-> xs[i] - cr[1]]
        delta_yList == [i \in 1..n |-> ys[i] - cr[2]]
        bVector == << SumProd(delta_xList, us, n), SumProd(delta_yList, us, n),
                      SumProd(delta_xList, vs, n), SumProd(delta_yList, vs, n) >>
        offDiag == SumProd(delta_yList, delta_xList, n)
        xsq == SumProd(delta_xList, delta_xList, n)
        ysq == SumProd(delta_yList, delta_yList, n)
        aMatrix == << <<xsq, offDiag, 0, 0>>,
                      <<offDiag, ysq, 0, 0>>,
                      <<0, 0, xsq, offDiag>>,
                      <<0, 0, offDiag, ysq>> >>
    IN  [a |-> aMatrix, b |-> bVector]

SolveCoeffs(xs, ys, us, vs, cr) ==
    LET ne == NormalEquations(xs, ys, us, vs, cr)
    IN  LinalgSolve(ne.a, ne.b)

\* the header with CD1_2 and CD2_1 exchanged
FitsHeader_Transposed(ep, point, cr, c) ==
    [made |-> TRUE, RADECSYS |-> "ICRS", EQUINOX |-> ep,
     CRVAL1 |-> Degrees(point[1]), CRVAL2 |-> Degrees(point[2]),
     CRPIX1 |-> cr[1], CRPIX2 |-> cr[2],
     CTYPE1 |-> "RA---TAN", CTYPE2 |-> "DEC--TAN",
     CD1_1 |-> c[1], CD1_2 |-> c[3], CD2_1 |-> c[2], CD2_2 |-> c[4]]

\* lines 363-375: the header
FitsHeader(ep, point, cr, c) ==
    [made |-> TRUE, RADECSYS |-> "ICRS", EQUINOX |-> ep,
     CRVAL1 |-> Degrees(point[1]), CRVAL2 |-> Degrees(point[2]),
     CRPIX1 |-> cr[1], CRPIX2 |-> cr[2],
     CTYPE1 |-> "RA---TAN", CTYPE2 |-> "DEC--TAN",
     CD1_1 |-> c[1], CD1_2 |-> c[2], CD2_1 |-> c[3], CD2_2 |-> c[4]]

FitIdle ==
    /\ env = [failAt |-> "none"] /\ pc = "idle" /\ bounds = <<>>
    /\ xPixList = <<>> /\ yPixList = <<>> /\ raDecList = <<>>
    /\ pointing = <<>> /\ crPix = <<>> /\ nativeOrigin = <<>>
    /\ uList = <<>> /\ vList = <<>> /\ coeffs = <<>>
    /\ tanWcs = NoWcs /\ err = "" /\ log = <<>>

(***************************************************************************)
(* The calls the model makes                                               *)
(***************************************************************************)
SeqsUpTo(S, n) == UNION {[1..m -> S] : m \in 1..n}

LonVals == -1..4        \* ra or lon, in quarter turns
LatVals == -1..1        \* dec or lat
RaPointings == 0..3
DecPointings == -2..1   \* the repository's round-trip test points at dec in [-180, -90] degrees
ArrayPointings == {<<0, 0>>, <<3, -1>>}
RadianFns == {"_nativeLonLatFromRaDec", "_raDecFromNativeLonLat"}
DegreeFns == {"nativeLonLatFromRaDec", "raDecFromNativeLonLat"}

\* one pair of floats with a pointing of floats
ScalarCalls ==
    {[shape |-> "scalar", a |-> <<a>>, b |-> <<b>>, pshape |-> "scalar", rp |-> <<rp>>, dp |-> <<dp>>] :
        a \in LonVals, b \in LatVals, rp \in RaPointings, dp \in DecPointings}

\* two arrays, of equal length or not, with a pointing of floats
ArrayCalls ==
    {[shape |-> "array", a |-> sa, b |-> sb, pshape |-> "scalar", rp |-> <<p[1]>>, dp |-> <<p[2]>>] :
        sa \in SeqsUpTo(0..3, MaxBatch), sb \in SeqsUpTo(LatVals, MaxBatch), p \in ArrayPointings}

\* a pointing passed as arrays
ArrayPointingCalls ==
    {[shape |-> sh, a |-> <<a>>, b |-> <<0>>, pshape |-> "array", rp |-> rp, dp |-> [i \in 1..Len(rp) |-> 0]] :
        sh \in {"scalar", "array"}, a \in 0..3, rp \in SeqsUpTo({0, 1}, MaxBatch)}

Calls == ScalarCalls \cup ArrayCalls \cup ArrayPointingCalls

ToDegrees(a) ==
    [a EXCEPT !.a = DegreesOf(a.a), !.b = DegreesOf(a.b),
              !.rp = DegreesOf(a.rp), !.dp = DegreesOf(a.dp)]

WithFn(a, fn) ==
    [fn |-> fn, shape |-> a.shape, a |-> a.a, b |-> a.b, pshape |-> a.pshape, rp |-> a.rp, dp |-> a.dp]

InitTransform ==
    /\ mode = "transform"
    /\ args \in {WithFn(a, fn) : a \in Calls, fn \in RadianFns}
                \cup {WithFn(ToDegrees(a), fn) : a \in ScalarCalls, fn \in DegreeFns}
    /\ rounding \in RoundingsOf(IF args.fn \in DegreeFns THEN InRadians(args) ELSE args)
    /\ ret = Pending
    /\ back = Pending
    /\ FitIdle

CallNativeLonLat ==
    /\ mode = "transform" /\ ret.st = "pending"
    /\ args.fn = "_nativeLonLatFromRaDec"
    /\ ret' \in _nativeLonLatFromRaDec(args, rounding)
    /\ UNCHANGED <<mode, args, rounding, back, fvars>>

CallRaDec ==
    /\ mode = "transform" /\ ret.st = "pending"
    /\ args.fn = "_raDecFromNativeLonLat"
    /\ ret' \in _raDecFromNativeLonLat(args, rounding)
    /\ UNCHANGED <<mode, args, rounding, back, fvars>>

CallNativeLonLatDegrees ==
    /\ mode = "transform" /\ ret.st = "pending"
    /\ args.fn = "nativeLonLatFromRaDec"
    /\ ret' \in nativeLonLatFromRaDec(args, rounding)
    /\ UNCHANGED <<mode, args, rounding, back, fvars>>

CallRaDecDegrees ==
    /\ mode = "transform" /\ ret.st = "pending"
    /\ args.fn = "raDecFromNativeLonLat"
    /\ ret' \in raDecFromNativeLonLat(args, rounding)
    /\ UNCHANGED <<mode, args, rounding, back, fvars>>

\* the round trip of testRaDec, a pair of floats at a time: the inverse applied to
\* what the forward transform returned
InvertResult ==
    /\ mode = "transform" /\ ret.st = "returned" /\ back.st = "pending"
    /\ args.fn = "_nativeLonLatFromRaDec" /\ args.shape = "scalar"
    /\ LET inverse == [args EXCEPT !.fn = "_raDecFromNativeLonLat",
                                    !.shape = ret.shape, !.b = ret.lat,
                                    !.a = [i \in 1..Len(ret.lon) |-> ret.lon[i].v]]
       IN  \E rnd \in RoundingsOf(inverse) : back' \in _raDecFromNativeLonLat(inverse, rnd)
    /\ UNCHANGED <<mode, args, rounding, ret, fvars>>

(***************************************************************************)
(* tanWcsFromDetector, step by step.  No step catches an exception: a      *)
(* collaborator's error leaves the function as it is.                      *)
(***************************************************************************)
InitFit ==
    /\ mode = "fit"
    /\ args = [fn |-> "tanWcsFromDetector"] /\ rounding = <<>>
    /\ ret = Pending /\ back = Pending
    /\ env \in FitEnvs
    /\ pc = "bounds" /\ bounds = <<>>
    /\ xPixList = <<>> /\ yPixList = <<>> /\ raDecList = <<>>
    /\ pointing = <<>> /\ crPix = <<>> /\ nativeOrigin = <<>>
    /\ uList = <<>> /\ vList = <<>> /\ coeffs = <<>>
    /\ tanWcs = NoWcs /\ err = "" /\ log = <<>>

Raise(e) == pc' = "raised" /\ err' = e

\* lines 290-291 with 239-263
GetTanPixelBounds ==
    /\ mode = "fit" /\ pc = "bounds"
    /\ IF env.failAt = "getCorners"
       THEN /\ log' = log \o <<"getCorners">>
            /\ Raise(env.failErr)
            /\ UNCHANGED bounds
       ELSE IF env.failAt = "transform"
       THEN /\ log' = log \o <<"getCorners">> \o [i \in 1..env.failIdx |-> "transform"]
            /\ Raise(env.failErr)
            /\ UNCHANGED bounds
       ELSE /\ log' = log \o <<"getCorners">> \o [i \in 1..Len(env.corners) |-> "transform"]
            /\ bounds' = _getTanPixelBounds(env.corners)
            /\ pc' = "sample"
            /\ UNCHANGED err
    /\ UNCHANGED <<mode, tvars, env, xPixList, yPixList, raDecList, pointing, crPix,
                   nativeOrigin, uList, vList, coeffs, tanWcs>>

\* lines 294-308
BuildSampleGrid ==
    /\ mode = "fit" /\ pc = "sample"
    /\ xPixList' = SampleGrid(bounds).x
    /\ yPixList' = SampleGrid(bounds).y
    /\ pc' = "raDec"
    /\ UNCHANGED <<mode, tvars, env, bounds, raDecList, pointing, crPix,
                   nativeOrigin, uList, vList, coeffs, tanWcs, err, log>>

\* lines 311-315
CallRaDecFromPixelCoordinates ==
    /\ mode = "fit" /\ pc = "raDec"
    /\ log' = log \o <<"raDecFromPixelCoordinates">>
    /\ IF env.failAt = "raDecFromPixelCoordinates"
       THEN Raise(env.failErr) /\ UNCHANGED raDecList
       ELSE /\ raDecList' = [i \in 1..Len(xPixList) |-> RaDecFromPixel(env, xPixList[i], yPixList[i])]
            /\ pc' = "observed"
            /\ UNCHANGED err
    /\ UNCHANGED <<mode, tvars, env, bounds, xPixList, yPixList, pointing, crPix,
                   nativeOrigin, uList, vList, coeffs, tanWcs>>

\* lines 317-319 with the call made again after it has raised
CallObservedFromICRS_Retried ==
    /\ mode = "fit" /\ pc = "observed"
    /\ IF env.failAt = "observedFromICRS"
       THEN log' = log \o <<"observedFromICRS", "observedFromICRS">>
       ELSE log' = log \o <<"observedFromICRS">>
    /\ pointing' = ObservedFromICRS(env, env.unrefracted)
    /\ pc' = "pixel"
    /\ UNCHANGED <<mode, tvars, env, bounds, xPixList, yPixList, raDecList, crPix,
                   nativeOrigin, uList, vList, coeffs, tanWcs, err>>

\* lines 317-319
CallObservedFromICRS ==
    /\ mode = "fit" /\ pc = "observed"
    /\ log' = log \o <<"observedFromICRS">>
    /\ IF env.failAt = "observedFromICRS"
       THEN Raise(env.failErr) /\ UNCHANGED pointing
       ELSE /\ pointing' = ObservedFromICRS(env, env.unrefracted)
            /\ pc' = "pixel"
            /\ UNCHANGED err
    /\ UNCHANGED <<mode, tvars, env, bounds, xPixList, yPixList, raDecList, crPix,
                   nativeOrigin, uList, vList, coeffs, tanWcs>>

\* lines 321-324
CallCalculatePixelCoordinates ==
    /\ mode = "fit" /\ pc = "pixel"
    /\ log' = log \o <<"calculatePixelCoordinates">>
    /\ IF env.failAt = "calculatePixelCoordinates"
       THEN Raise(env.failErr) /\ UNCHANGED crPix
       ELSE /\ crPix' = CalculatePixelCoordinates(env, pointing)
            /\ pc' = "native"
            /\ UNCHANGED err
    /\ UNCHANGED <<mode, tvars, env, bounds, xPixList, yPixList, raDecList, pointing,
                   nativeOrigin, uList, vList, coeffs, tanWcs>>

\* lines 326-335
NativeAndProject ==
    /\ mode = "fit" /\ pc = "native"
    /\ nativeOrigin' = pointing
    /\ uList' = IntermediateWorld(raDecList, pointing, env).u
    /\ vList' = IntermediateWorld(raDecList, pointing, env).v
    /\ pc' = "solve"
    /\ UNCHANGED <<mode, tvars, env, bounds, xPixList, yPixList, raDecList, pointing, crPix,
                   coeffs, tanWcs, err, log>>

\* lines 337-358
SolveNormalEquations ==
    /\ mode = "fit" /\ pc = "solve"
    /\ \E sol \in {SolveCoeffs(xPixList, yPixList, uList, vList, crPix)} :
          IF sol.ok
          THEN coeffs' = sol.x /\ pc' = "wcs" /\ UNCHANGED err
          ELSE Raise("LinAlgError") /\ UNCHANGED coeffs
    /\ UNCHANGED <<mode, tvars, env, bounds, xPixList, yPixList, raDecList, pointing, crPix,
                   nativeOrigin, uList, vList, tanWcs, log>>

\* lines 360-378
MakeTanWcs ==
    /\ mode = "fit" /\ pc = "wcs"
    /\ log' = log \o <<"makeWcs">>
    /\ IF env.failAt = "makeWcs"
       THEN Raise(env.failErr) /\ UNCHANGED tanWcs
       ELSE /\ tanWcs' = FitsHeader(env.epoch, pointing, crPix, coeffs)
            /\ pc' = "done"
            /\ UNCHANGED err
    /\ UNCHANGED <<mode, tvars, env, bounds, xPixList, yPixList, raDecList, pointing, crPix,
                   nativeOrigin, uList, vList, coeffs>>

Init == InitTransform \/ InitFit

Next ==
    \/ CallNativeLonLat
    \/ CallRaDec
    \/ CallNativeLonLatDegrees
    \/ CallRaDecDegrees
    \/ InvertResult
    \/ GetTanPixelBounds
    \/ BuildSampleGrid
    \/ CallRaDecFromPixelCoordinates
    \/ CallObservedFromICRS
    \/ CallCalculatePixelCoordinates
    \/ NativeAndProject
    \/ SolveNormalEquations
    \/ MakeTanWcs

Spec == Init /\ [][Next]_vars
(***************************************************************************)
(* Properties of the coordinate transforms                                 *)
(***************************************************************************)
Forward == {"_nativeLonLatFromRaDec", "nativeLonLatFromRaDec"}

\* a call of a radian transform that has come back
RadianCallDone == mode = "transform" /\ args.fn \in RadianFns /\ ret.st # "pending"

\* coordinates of one length with a pointing of floats
WellShaped == args.pshape = "scalar" /\ Len(args.a) = Len(args.b)

\* the rotated vector of element i of the call, and its candidate
Rotated(i) == RotatedElement(args, i)
CandidateOf(i) == Candidate(Rotated(i), rounding[i])
Flipped(i) == Flip(CandidateOf(i), AsComputed(Rotated(i), rounding[i]))

\* what the function called gives for element i passed alone as floats
AloneAsFloats(i) ==
    LET a == [args EXCEPT !.shape = "scalar", !.a = <<args.a[i]>>, !.b = <<args.b[i]>>]
    IN  IF args.fn = "_nativeLonLatFromRaDec" THEN _nativeLonLatFromRaDec(a, <<rounding[i]>>)
        ELSE _raDecFromNativeLonLat(a, <<rounding[i]>>)

\* C1: for a pointing of floats and (ra, dec) with ra in [0, 2pi) and dec in
\* [-pi/2, pi/2] that is not at a native pole, _nativeLonLatFromRaDec followed by
\* _raDecFromNativeLonLat with the same pointing returns (ra, dec).
C1_RoundTrip ==
    (/\ mode = "transform" /\ args.fn = "_nativeLonLatFromRaDec"
     /\ args.shape = "scalar" /\ args.pshape = "scalar"
     /\ args.a[1] \in 0..(2 * Pi - 1) /\ 2 * args.b[1] \in (-1 * Pi)..Pi
     /\ ret.st = "returned" /\ 2 * ret.lat[1] \notin {-1 * Pi, Pi}
     /\ back.st # "pending")
    => /\ back.st = "returned"
       /\ back.lon = <<Num(args.a[1])>>
       /\ back.lat = args.b

\* C2: for arrays of one length and a pointing of floats, element i of what the
\* array path returns is what the scalar path returns for element i alone, the
\* elements whose longitude candidate is a nan included, in both transforms.
C2_BatchEquivalence ==
    (RadianCallDone /\ args.shape = "array" /\ WellShaped)
    => /\ ret.st = "returned"
       /\ Len(ret.lon) = Len(args.a) /\ Len(ret.lat) = Len(args.a)
       /\ \A i \in 1..Len(args.a) :
             AloneAsFloats(i) = {Returned("scalar", <<ret.lon[i]>>, <<ret.lat[i]>>)}

\* an array of two passed to the inverse transform, one element with a nan for
\* its candidate and one with a longitude that was flipped
C2_Witness ==
    /\ RadianCallDone /\ args.fn = "_raDecFromNativeLonLat"
    /\ args.shape = "array" /\ WellShaped /\ Len(args.a) = 2
    /\ ret.st = "returned"
    /\ \E i \in 1..2 : CandidateOf(i).ra.k = "nan" /\ ret.lon[i] = Num(0)
    /\ \E i \in 1..2 : Flipped(i) /\ ret.lon[i].v > Pi

\* C3: nativeLonLatFromRaDec in degrees with the pointing on the equator gives
\* (180, 0) for (ra 0, dec 90, rp 0), (180, 0) for (0, 90, 270), (90, 0) for
\* (0, 0, 270) and (270, 0) for (270, 0, 0).
C3_KnownValues ==
    \A k \in { <<0, 90, 0, 180>>, <<0, 90, 270, 180>>, <<0, 0, 270, 90>>, <<270, 0, 0, 270>> } :
        (/\ mode = "transform" /\ args.fn = "nativeLonLatFromRaDec"
         /\ args.shape = "scalar" /\ args.pshape = "scalar"
         /\ args.a = <<k[1]>> /\ args.b = <<k[2]>> /\ args.rp = <<k[3]>> /\ args.dp = <<0>>
         /\ ret.st # "pending")
        => ret = Returned("scalar", <<Num(k[4])>>, <<0>>)

\* the third known value has come back
C3_Witness ==
    /\ mode = "transform" /\ args.fn = "nativeLonLatFromRaDec" /\ args.shape = "scalar"
    /\ args.a = <<0>> /\ args.b = <<0>> /\ args.rp = <<270>> /\ args.dp = <<0>>
    /\ ret = Returned("scalar", <<Num(90)>>, <<0>>)

\* C5: called with arrays of unequal length or with a pointing that is not a
\* pair of floats, a transform raises before its first computation (line 47,
\* line 158) and never returns coordinates.
C5_InputValidation ==
    (mode = "transform" /\ ~WellShaped /\ ret.st # "pending")
    => /\ ret.st = "raised"
       /\ ret.line < (IF args.fn \in Forward THEN 47 ELSE 158)

\* C6: when the rotated vector is at a pole, the longitude (ra) returned is 0
\* and the latitude (dec) is +-pi/2; no call with well-shaped arguments raises;
\* in the scalar and the array path.
C6_PoleDegeneracy ==
    (RadianCallDone /\ WellShaped)
    => /\ ret.st = "returned"
       /\ \A i \in 1..Len(args.a) :
             AtPole(Rotated(i)) =>
                /\ ret.lon[i] = Num(0)
                /\ 2 * ret.lat[i] \in {-1 * Pi, Pi}

\* C7: with a pointing of floats, every longitude (ra) a transform returns is in
\* [0, 2pi) and every latitude (dec) in [-pi/2, pi/2], whatever the input.
C7_OutputRange ==
    (RadianCallDone /\ args.pshape = "scalar" /\ ret.st = "returned")
    => \A i \in 1..Len(ret.lon) :
            /\ ret.lon[i].k = "num"
            /\ 0 <= ret.lon[i].v /\ ret.lon[i].v < 2 * Pi
            /\ 2 * ret.lat[i] \in (-1 * Pi)..Pi

\* an ra outside [0, 2pi) whose candidate is 0 and a longitude that was flipped
\* to the last value below 2pi
C7_Witness ==
    /\ RadianCallDone /\ args.shape = "scalar" /\ WellShaped
    /\ args.a[1] \notin 0..(2 * Pi - 1)
    /\ ret.st = "returned"
    /\ \/ CandidateOf(1).ra = Num(0) /\ ret.lon[1] = Num(0)
       \/ Flipped(1) /\ ret.lon[1] = Num(2 * Pi - 1)


\* element i of a returned call has a number for its candidate
RealCandidate(i) ==
    /\ RadianCallDone /\ WellShaped /\ ret.st = "returned"
    /\ CandidateOf(i).ra.k = "num"

\* x' and y' of element i as the code has them, and y'/cos(lat)
XPrime(i) == AsComputed(Rotated(i), rounding[i])[1]
YPrime(i) == AsComputed(Rotated(i), rounding[i])[2]
Quotient(i) == CandidateOf(i).y.v

\* s exceeds 1e-9 in magnitude and its sign is not that of w
Disagrees(s, w) == Abs(s) * TolInv > 1 /\ Sign(s) # Sign(w)

\* what the transform returned for element i is 2pi - candidate if flip, else the candidate
ReturnedAs(i, flip) ==
    ret.lon[i] = Num(IF flip THEN 2 * Pi - CandidateOf(i).ra.v ELSE CandidateOf(i).ra.v)

\* C11 as stated: with the candidate a number, the longitude (ra) returned is
\* 2pi - candidate exactly when sin(candidate) disagrees in sign with x' beyond
\* 1e-9 or y'/cos(lat) disagrees in sign with y' beyond 1e-9, and the candidate
\* otherwise.
C11_QuadrantBySin ==
    (RadianCallDone /\ WellShaped /\ ret.st = "returned")
    => \A i \in 1..Len(args.a) :
          RealCandidate(i)
          => ReturnedAs(i, \/ Disagrees(Sin(CandidateOf(i).ra.v), XPrime(i))
                           \/ Disagrees(Quotient(i), YPrime(i)))

\* C11 as the code has it: the same with -sin(candidate) for sin(candidate), in
\* both transforms and in the scalar and the array path.
C11_QuadrantByNegSin ==
    (RadianCallDone /\ WellShaped /\ ret.st = "returned")
    => \A i \in 1..Len(args.a) :
          RealCandidate(i)
          => ReturnedAs(i, \/ Disagrees(-1 * Sin(CandidateOf(i).ra.v), XPrime(i))
                           \/ Disagrees(Quotient(i), YPrime(i)))

\* the inverse transform of an array: one candidate of pi/2 kept because x' is
\* negative, one changed to 2pi - pi/2 because x' is positive
C11_Witness ==
    /\ args.fn = "_raDecFromNativeLonLat" /\ args.shape = "array" /\ Len(args.a) = 2
    /\ RealCandidate(1) /\ RealCandidate(2)
    /\ \E i \in 1..2 : XPrime(i) < 0 /\ ret.lon[i] = Num(1)
    /\ \E i \in 1..2 : XPrime(i) > 0 /\ ret.lon[i] = Num(2 * Pi - 1)

(***************************************************************************)
(* Properties of tanWcsFromDetector                                        *)
(***************************************************************************)
\* the sums over the samples' offsets from the reference pixel, once it is known
OffsetSums ==
    LET n == Len(xPixList)
        dx == [i \in 1..n |-> xPixList[i] - crPix[1]]
        dy == [i \in 1..n |-> yPixList[i] - crPix[2]]
    IN  [xx |-> SumProd(dx, dx, n), yy |-> SumProd(dy, dy, n), xy |-> SumProd(dx, dy, n),
         xu |-> SumProd(dx, uList, Len(uList)), yu |-> SumProd(dy, uList, Len(uList)),
         xv |-> SumProd(dx, vList, Len(vList)), yv |-> SumProd(dy, vList, Len(vList))]

Degenerate ==
    /\ mode = "fit" /\ crPix # <<>>
    /\ OffsetSums.xx * OffsetSums.yy - OffsetSums.xy * OffsetSums.xy = 0

\* C4: when the offsets of the samples from the reference pixel are degenerate
\* (sum dx^2 * sum dy^2 - (sum dx*dy)^2 = 0), tanWcsFromDetector gets no further
\* than the solve, ends with the solve's LinAlgError, and has no coefficients
\* and no WCS.
C4_FitFailure ==
    Degenerate
    => /\ pc \in {"native", "solve", "raised"}
       /\ pc = "raised" => err = "LinAlgError"
       /\ coeffs = <<>> /\ tanWcs = NoWcs

\* a single row of samples through the reference pixel, and the solve has raised
C4_Witness ==
    /\ Degenerate /\ pc = "raised" /\ err = "LinAlgError"
    /\ OffsetSums.yy = 0 /\ OffsetSums.xx > 0
    /\ uList # <<>> /\ log[Len(log)] = "calculatePixelCoordinates"

\* c1*dx + c2*dy is the least-squares fit of w: the two normal equations hold
LeastSquares(c1, c2, xw, yw) ==
    /\ RAdd(RMul(RInt(OffsetSums.xx), c1), RMul(RInt(OffsetSums.xy), c2)) = RInt(xw)
    /\ RAdd(RMul(RInt(OffsetSums.xy), c1), RMul(RInt(OffsetSums.yy), c2)) = RInt(yw)

\* C8: in a call that has returned, CRVAL is the corrected pointing in degrees,
\* CRPIX the pixel the camera gives for that pointing, the samples' native frame
\* has that pointing as origin, EQUINOX is the epoch passed, and (CD1_1, CD1_2)
\* and (CD2_1, CD2_2) are the fitted coefficients of (dx, dy) in u and in v.
C8_ReferencePoint ==
    (mode = "fit" /\ pc = "done")
    => LET corrected == ObservedFromICRS(env, env.unrefracted)
       IN  /\ tanWcs.made
           /\ tanWcs.CRVAL1 = Degrees(corrected[1]) /\ tanWcs.CRVAL2 = Degrees(corrected[2])
           /\ <<tanWcs.CRPIX1, tanWcs.CRPIX2>> = CalculatePixelCoordinates(env, corrected)
           /\ crPix = <<tanWcs.CRPIX1, tanWcs.CRPIX2>>
           /\ nativeOrigin = corrected
           /\ tanWcs.EQUINOX = env.epoch
           /\ LeastSquares(tanWcs.CD1_1, tanWcs.CD1_2, OffsetSums.xu, OffsetSums.yu)
           /\ LeastSquares(tanWcs.CD2_1, tanWcs.CD2_2, OffsetSums.xv, OffsetSums.yv)

\* a returned WCS whose corrected pointing is not the uncorrected one, whose
\* reference pixel is not the first sample, and whose CD matrix is not symmetric
C8_Witness ==
    /\ mode = "fit" /\ pc = "done" /\ tanWcs.made
    /\ env.observed # env.unrefracted /\ env.epoch = 2015
    /\ tanWcs.CRPIX1 # xPixList[1]
    /\ tanWcs.CD1_2 # tanWcs.CD2_1
    /\ env.quad = 1

Count(s, c) == Cardinality({i \in 1..Len(s) : s[i] = c})

\* the results of the steps of tanWcsFromDetector, in the order it computes them
StepResults == <<bounds, xPixList, raDecList, pointing, crPix, uList, coeffs>>

\* the step that makes a collaborator's call
StepOf(c) ==
    CASE c \in {"getCorners", "transform"} -> 1
      [] c = "raDecFromPixelCoordinates" -> 3
      [] c = "observedFromICRS" -> 4
      [] c = "calculatePixelCoordinates" -> 5
      [] c = "makeWcs" -> 8

\* the call that env makes raise has been made
FailingCallMade ==
    /\ mode = "fit" /\ env.failAt # "none"
    /\ Count(log, env.failAt) >= env.failIdx

\* C9: once a collaborator's call has raised, tanWcsFromDetector has ended with
\* that error; the call was the last one made and was made once; no step after
\* it has a result; there is no WCS.
C9_CollaboratorFailure ==
    FailingCallMade
    => /\ pc = "raised" /\ err = env.failErr
       /\ log[Len(log)] = env.failAt
       /\ Count(log, env.failAt) = env.failIdx
       /\ \A j \in StepOf(env.failAt)..Len(StepResults) : StepResults[j] = <<>>
       /\ tanWcs = NoWcs

\* observedFromICRS has raised after the samples' sky positions were obtained
C9_Witness ==
    /\ FailingCallMade /\ env.failAt = "observedFromICRS"
    /\ pc = "raised" /\ err = "MemoryError"
    /\ raDecList # <<>> /\ pointing = <<>>

\* the samples have been built
Sampled == mode = "fit" /\ xPixList # <<>>

\* the sample pixels with their coordinates doubled, so that a midpoint is an integer
DoubledSamples == {<<2 * xPixList[i], 2 * yPixList[i]>> : i \in 1..Len(xPixList)}

\* C12: for a bounding box of positive extent on both axes, the samples are the
\* 9 points {xMin, (xMin+xMax)/2, xMax} x {yMin, (yMin+yMax)/2, yMax}, spaced by
\* half the x extent along x and half the y extent along y, all inside the box.
C12_SamplingGrid ==
    (Sampled /\ bounds[1] < bounds[2] /\ bounds[3] < bounds[4])
    => /\ Len(xPixList) = 9 /\ Len(yPixList) = 9
       /\ DoubledSamples =
              {2 * bounds[1], bounds[1] + bounds[2], 2 * bounds[2]}
              \X {2 * bounds[3], bounds[3] + bounds[4], 2 * bounds[4]}
       /\ \A i \in 1..Len(xPixList) :
              /\ bounds[1] <= xPixList[i] /\ xPixList[i] <= bounds[2]
              /\ bounds[3] <= yPixList[i] /\ yPixList[i] <= bounds[4]

\* the solve has been run on offsets that are not degenerate
SolvedNonDegenerate ==
    /\ mode = "fit" /\ uList # <<>> /\ pc \in {"wcs", "done", "raised"}
    /\ OffsetSums.xx * OffsetSums.yy - OffsetSums.xy * OffsetSums.xy # 0

\* w_i = c1*dx_i + c2*dy_i at every sample
Linear(w, c1, c2) ==
    \A i \in 1..Len(w) :
        w[i] = c1 * (xPixList[i] - crPix[1]) + c2 * (yPixList[i] - crPix[2])

\* the coefficients tried for an exactly linear map
LinearCoeffs == (-2..2) \X (-2..2)

\* the 2x2 block of the normal equations solved alone for the sums xw, yw
BlockSolve(xw, yw) ==
    LinalgSolve(<< <<OffsetSums.xx, OffsetSums.xy>>, <<OffsetSums.xy, OffsetSums.yy>> >>,
                <<xw, yw>>)

\* C13: when u_i = a*dx_i + b*dy_i and v_i = c*dx_i + d*dy_i exactly and the
\* offsets are not degenerate, the coefficients solved are (a, b, c, d); and
\* the 4x4 solve gives what the two 2x2 blocks give when solved separately,
\* the first pair from the u values and the second from the v values.
C13_ExactLinearFit ==
    SolvedNonDegenerate
    => /\ Len(coeffs) = 4
       /\ \A ab \in LinearCoeffs : \A cd \in LinearCoeffs :
             (Linear(uList, ab[1], ab[2]) /\ Linear(vList, cd[1], cd[2]))
             => coeffs = <<RInt(ab[1]), RInt(ab[2]), RInt(cd[1]), RInt(cd[2])>>
       /\ BlockSolve(OffsetSums.xu, OffsetSums.yu) = [ok |-> TRUE, x |-> <<coeffs[1], coeffs[2]>>]
       /\ BlockSolve(OffsetSums.xv, OffsetSums.yv) = [ok |-> TRUE, x |-> <<coeffs[3], coeffs[4]>>]

\* an exactly linear map with four different-looking rows, recovered from
\* offsets whose cross sum is not 0, so that neither block is diagonal
C13_Witness ==
    /\ SolvedNonDegenerate /\ pc = "done"
    /\ env.quad = 0 /\ env.cd = <<2, 1, 1, -1>>
    /\ Linear(uList, 2, 1) /\ Linear(vList, 1, -1)
    /\ OffsetSums.xy # 0
    /\ coeffs = <<RInt(2), RInt(1), RInt(1), RInt(-1)>>

====
